---- MODULE Spec2Model ----
(***************************************************************************)
(* Model of the Saffron front end (python-src): the tokenizer Lexer.lex    *)
(* and the recursive-descent Parser.  Source text is a sequence of         *)
(* one-character strings; indices follow Python (0-based), so the          *)
(* character at index i of a stream s is s[i+1].                           *)
(***************************************************************************)
EXTENDS Integers, Sequences, FiniteSets, TLC

(***************************************************************************)
(* Bounds                                                                  *)
(***************************************************************************)
\* longest source text given to the lexer
MaxLen == 3
\* longest free-form token list given to the parser
MaxTokens == 3
\* most declarations in a declaration-list input of the parser
MaxDecls == 3

\* characters the bounded source texts are made of
Alphabet ==
  {"i", "f", "1", "_", ".", "=", "-", ">", "&", "|", "/", "\n", " ", "\"", "'"}

(***************************************************************************)
(* State                                                                   *)
(***************************************************************************)
VARIABLES
  \* Lexer
  source,       \* the text handed to Lexer(stream)
  stream,       \* self.stream
  lex_current,  \* self.current of the Lexer
  lex_tokens,   \* self.tokens of the Lexer
  tokpos,       \* tokpos[k]: index in stream of the first character of lex_tokens[k]
  reads,        \* the indices of stream read by the last iteration of lex()
  lex_prev,     \* self.current of the Lexer when the last iteration began
  iters,        \* iterations of the outer loop of lex() so far
  lpc,          \* "idle", "lex", "done" (lex returned), "raised" (IndexError)
  \* Parser
  tokens,       \* self.tokens
  current,      \* self.current
  errors,       \* self.errors
  program,      \* program.statements of the ProgramNode parse() is building
  prev,         \* self.current when the last iteration of parse() began, -1 before
  call,         \* the method called: "none", "parse", "parse_expression", "parse_declaration"
  result,       \* what a directly called grammar rule returned
  exc,          \* the exception that left the method, "none" if none
  pc            \* "idle", "new", "parse" (in the loop of parse), "returned", "raised"

lexvars == <<source, stream, lex_current, lex_tokens, tokpos, reads, lex_prev, iters, lpc>>
parsevars == <<tokens, current, errors, program, prev, call, result, exc, pc>>
vars == <<lexvars, parsevars>>

(***************************************************************************)
(* lexemes.py                                                              *)
(***************************************************************************)
\* class Lexemes: attribute name -> value.  An attribute that is not in the
\* domain does not exist: reading it raises AttributeError.
Lexemes ==
  [n \in {"IF", "ELSE", "LOOP", "FUNC", "IMPORT", "RETURN", "LET", "CONST",
          "PLUS", "MINUS", "MULTIPLY", "DIVIDE", "MODULO",
          "ASSIGNMENT", "COMPARISON",
          "SEMICOLON", "COLON", "DOT", "COMMA",
          "AND", "OR", "NOT", "ARROW",
          "OPENPARENTHESIS", "CLOSEPARENTHESIS",
          "OPENSQUAREBRACKET", "CLOSESQUAREBRACKET",
          "OPENCURLYBRACKET", "CLOSECURLYBRACKET",
          "CHARLITERAL", "STRINGLITERAL", "INTLITERAL", "FLOATLITERAL",
          "IDENTIFIER", "TRUE", "FALSE"} |->
     CASE n = "IF" -> "ifKeyword"
       [] n = "ELSE" -> "elseKeyword"
       [] n = "LOOP" -> "loopKeyword"
       [] n = "FUNC" -> "funcKeyword"
       [] n = "IMPORT" -> "importKeyword"
       [] n = "RETURN" -> "returnKeyword"
       [] n = "LET" -> "letKeyword"
       [] n = "CONST" -> "constKeyword"
       [] n = "PLUS" -> "plusOperator"
       [] n = "MINUS" -> "minusOperator"
       [] n = "MULTIPLY" -> "multiplyOperator"
       [] n = "DIVIDE" -> "divideOperator"
       [] n = "MODULO" -> "moduloOperator"
       [] n = "ASSIGNMENT" -> "assignmentOperator"
       [] n = "COMPARISON" -> "comparisonOperator"
       [] n = "SEMICOLON" -> "semicolonSymbol"
       [] n = "COLON" -> "colonSymbol"
       [] n = "DOT" -> "dotSymbol"
       [] n = "COMMA" -> "commaSymbol"
       [] n = "AND" -> "andSymbol"
       [] n = "OR" -> "orSymbol"
       [] n = "NOT" -> "notSymbol"
       [] n = "ARROW" -> "arrowSymbol"
       [] n = "OPENPARENTHESIS" -> "openParenthesis"
       [] n = "CLOSEPARENTHESIS" -> "closeParenthesis"
       [] n = "OPENSQUAREBRACKET" -> "openSquareBracket"
       [] n = "CLOSESQUAREBRACKET" -> "closeSquareBracket"
       [] n = "OPENCURLYBRACKET" -> "openCurlyBracket"
       [] n = "CLOSECURLYBRACKET" -> "closeCurlyBracket"
       [] n = "CHARLITERAL" -> "charLiteral"
       [] n = "STRINGLITERAL" -> "stringLiteral"
       [] n = "INTLITERAL" -> "intLiteral"
       [] n = "FLOATLITERAL" -> "floatLiteral"
       [] n = "IDENTIFIER" -> "identifier"
       [] n = "TRUE" -> "trueValue"
       [] n = "FALSE" -> "falseValue"]

\* keywords = { spelling: lexeme }
keywords ==
  (<<"i", "f">> :> Lexemes["IF"]) @@
  (<<"e", "l", "s", "e">> :> Lexemes["ELSE"]) @@
  (<<"l", "o", "o", "p">> :> Lexemes["LOOP"]) @@
  (<<"f", "u", "n", "c">> :> Lexemes["FUNC"]) @@
  (<<"i", "m", "p", "o", "r", "t">> :> Lexemes["IMPORT"]) @@
  (<<"r", "e", "t", "u", "r", "n">> :> Lexemes["RETURN"]) @@
  (<<"l", "e", "t">> :> Lexemes["LET"]) @@
  (<<"c", "o", "n", "s", "t">> :> Lexemes["CONST"]) @@
  (<<"t", "r", "u", "e">> :> Lexemes["TRUE"]) @@
  (<<"f", "a", "l", "s", "e">> :> Lexemes["FALSE"])

\* symbols = { spelling: lexeme }
symbols ==
  (<<"(">> :> Lexemes["OPENPARENTHESIS"]) @@
  (<<")">> :> Lexemes["CLOSEPARENTHESIS"]) @@
  (<<"[">> :> Lexemes["OPENSQUAREBRACKET"]) @@
  (<<"]">> :> Lexemes["CLOSESQUAREBRACKET"]) @@
  (<<"{">> :> Lexemes["OPENCURLYBRACKET"]) @@
  (<<"}">> :> Lexemes["CLOSECURLYBRACKET"]) @@
  (<<".">> :> Lexemes["DOT"]) @@
  (<<",">> :> Lexemes["COMMA"]) @@
  (<<";">> :> Lexemes["SEMICOLON"]) @@
  (<<":">> :> Lexemes["COLON"]) @@
  (<<"+">> :> Lexemes["PLUS"]) @@
  (<<"-">> :> Lexemes["MINUS"]) @@
  (<<"*">> :> Lexemes["MULTIPLY"]) @@
  (<<"/">> :> Lexemes["DIVIDE"]) @@
  (<<"%">> :> Lexemes["MODULO"]) @@
  (<<"&", "&">> :> Lexemes["AND"]) @@
  (<<"|", "|">> :> Lexemes["OR"]) @@
  (<<"!">> :> Lexemes["NOT"]) @@
  (<<"-", ">">> :> Lexemes["ARROW"]) @@
  (<<"=">> :> Lexemes["ASSIGNMENT"]) @@
  (<<"=", "=">> :> Lexemes["COMPARISON"])

(***************************************************************************)
(* lexer.py                                                                *)
(***************************************************************************)
\* Token(token_type, value = "")
Token(token_type, value) == [token_type |-> token_type, value |-> value]

\* str.isalpha / str.isnumeric / str.isalnum on the characters of Alphabet
\* and of the keyword spellings
isalpha(c) ==
  c \in {"a", "b", "c", "e", "f", "g", "i", "l", "m", "n", "o", "p", "r", "s", "t", "u", "x"}

isnumeric(c) == c \in {"0", "1", "2", "3", "4"}

isalnum(c) == isalpha(c) \/ isnumeric(c)

\* what a read outside the stream yields in the model; the read itself is
\* recorded and makes lex() raise IndexError
NoChar == "<none>"

\* self.stream[i]
At(strm, i) == IF i \in 0..(Len(strm) - 1) THEN strm[i + 1] ELSE NoChar

\* the lookahead without its bounds test: self.stream[self.current + 1]
LookAheadUnguarded(strm, pos) ==
  [text |-> <<At(strm, pos + 1)>>, reads |-> {pos + 1}]

\* self.stream[self.current + 1] if self.current + 1 <= len(self.stream) - 1 else ""
LookAhead(strm, pos) ==
  IF pos + 1 <= Len(strm) - 1
  THEN [text |-> <<At(strm, pos + 1)>>, reads |-> {pos + 1}]
  ELSE [text |-> <<>>, reads |-> {}]

\* the inner loop of the identifier branch
RECURSIVE IdentifierRun(_, _, _, _, _)
IdentifierRun(strm, pos, identifier, character, rds) ==
  IF pos < Len(strm) - 1
  THEN LET cur == pos + 1
           next_char == At(strm, cur)
       IN  IF isalnum(next_char) \/ next_char = "_"
           THEN IdentifierRun(strm, cur, identifier \o <<next_char>>,
                              character, rds \cup {cur})
           ELSE [current |-> cur, text |-> identifier, character |-> next_char,
                 check_symbol |-> TRUE, reads |-> rds \cup {cur}]
  ELSE [current |-> pos, text |-> identifier, character |-> character,
        check_symbol |-> FALSE, reads |-> rds]

\* the inner loop of the number branch
RECURSIVE NumberRun(_, _, _, _, _)
NumberRun(strm, pos, number, character, rds) ==
  IF pos < Len(strm) - 1
  THEN LET cur == pos + 1
           next_char == At(strm, cur)
       IN  IF isnumeric(next_char) \/ next_char = "."
           THEN NumberRun(strm, cur, number \o <<next_char>>,
                          character, rds \cup {cur})
           ELSE [current |-> cur, text |-> number, character |-> next_char,
                 check_symbol |-> TRUE, reads |-> rds \cup {cur}]
  ELSE [current |-> pos, text |-> number, character |-> character,
        check_symbol |-> FALSE, reads |-> rds]

\* the inner loop of the char and string literal branches (quote is ' or ")
RECURSIVE LiteralRun(_, _, _, _, _)
LiteralRun(strm, pos, literal, quote, rds) ==
  IF pos < Len(strm) - 1
  THEN LET cur == pos + 1
           next_char == At(strm, cur)
       IN  IF next_char = quote
           THEN [current |-> cur, text |-> literal, reads |-> rds \cup {cur}]
           ELSE LiteralRun(strm, cur, literal \o <<next_char>>, quote,
                           rds \cup {cur})
  ELSE [current |-> pos, text |-> literal, reads |-> rds]

\* the inner loop of the comment branch
RECURSIVE CommentRun(_, _, _)
CommentRun(strm, pos, rds) ==
  IF pos < Len(strm) - 1
  THEN LET cur == pos + 1
           next_char == At(strm, cur)
       IN  IF next_char = "\n"
           THEN [current |-> cur, reads |-> rds \cup {cur}]
           ELSE CommentRun(strm, cur, rds \cup {cur})
  ELSE [current |-> pos, reads |-> rds]

\* "if check_symbol: ..." followed by "self.current += 1".  st is the lexer
\* state [current, tokens, tokpos, reads]; tokpos[k] is the index in the
\* stream of the first character tokens[k] was made from.
CheckSymbol(strm, st, character, check_symbol) ==
  LET la == LookAhead(strm, st.current)
      two == <<character>> \o la.text
      emit(kind) == [current |-> st.current + 1,
                     tokens |-> Append(st.tokens, Token(kind, <<>>)),
                     tokpos |-> Append(st.tokpos, st.current),
                     reads |-> st.reads \cup la.reads]
  IN  IF ~check_symbol
      THEN [st EXCEPT !.current = st.current + 1]
      ELSE IF two \in DOMAIN symbols THEN emit(symbols[two])
      ELSE IF <<character>> \in DOMAIN symbols THEN emit(symbols[<<character>>])
      ELSE [current |-> st.current + 1, tokens |-> st.tokens,
            tokpos |-> st.tokpos, reads |-> st.reads \cup la.reads]

\* one iteration of the outer loop of Lexer.lex
LexIteration(strm, pos, toks, tpos) ==
  LET character == At(strm, pos)
      push(kind, text, cur, rd) ==
        [current |-> cur, tokens |-> Append(toks, Token(kind, text)),
         tokpos |-> Append(tpos, pos), reads |-> rd]
      same(rd) ==
        [current |-> pos, tokens |-> toks, tokpos |-> tpos, reads |-> rd]
  IN  IF isalpha(character)
      THEN LET r == IdentifierRun(strm, pos, <<character>>, character, {pos})
               kind == IF r.text \in DOMAIN keywords
                       THEN keywords[r.text] ELSE Lexemes["IDENTIFIER"]
               text == IF r.text \in DOMAIN keywords THEN <<>> ELSE r.text
           IN  CheckSymbol(strm, push(kind, text, r.current, r.reads),
                           r.character, r.check_symbol)
      ELSE IF isnumeric(character)
      THEN LET r == NumberRun(strm, pos, <<character>>, character, {pos})
               kind == IF \E k \in 1..Len(r.text) : r.text[k] = "."
                       THEN Lexemes["FLOATLITERAL"] ELSE Lexemes["INTLITERAL"]
           IN  CheckSymbol(strm, push(kind, r.text, r.current, r.reads),
                           r.character, r.check_symbol)
      ELSE IF character = "'"
      THEN LET r == LiteralRun(strm, pos, <<>>, "'", {pos})
           IN  CheckSymbol(strm, push(Lexemes["CHARLITERAL"], r.text, r.current, r.reads),
                           character, FALSE)
      ELSE IF character = "\""
      THEN LET r == LiteralRun(strm, pos, <<>>, "\"", {pos})
           IN  CheckSymbol(strm, push(Lexemes["STRINGLITERAL"], r.text, r.current, r.reads),
                           character, FALSE)
      ELSE IF character = "/"
      THEN LET la == LookAhead(strm, pos)
           IN  IF la.text = <<"/">>
               THEN LET r == CommentRun(strm, pos, {pos} \cup la.reads)
                    IN  CheckSymbol(strm,
                                    [current |-> r.current, tokens |-> toks,
                                     tokpos |-> tpos, reads |-> r.reads],
                                    character, FALSE)
               ELSE CheckSymbol(strm, same({pos} \cup la.reads), character, TRUE)
      ELSE CheckSymbol(strm, same({pos}), character, TRUE)

\* Lexer(text).lex() as a function of the text: the token list returned
RECURSIVE LexLoop(_, _, _, _)
LexLoop(strm, pos, toks, tpos) ==
  IF pos < Len(strm) - 1
  THEN LET st == LexIteration(strm, pos, toks, tpos)
       IN  LexLoop(strm, st.current, st.tokens, st.tokpos)
  ELSE toks

Lex(text) == LexLoop(text \o <<"\n">>, 0, <<>>, <<>>)

(***************************************************************************)
(* The lexer as a state machine                                            *)
(***************************************************************************)
\* the source texts of the bounded check
RECURSIVE TextsUpTo(_)
TextsUpTo(n) ==
  IF n = 0 THEN {<<>>}
  ELSE LET shorter == TextsUpTo(n - 1)
       IN  shorter \cup {Append(t, c) : t \in {u \in shorter : Len(u) = n - 1}, c \in Alphabet}

\* the texts the specification's testable properties name
ExampleTexts ==
  { <<"l", "o", "o", "p", "1">>,
    <<"4", "2">>,
    <<"3", ".", "1", "4">>,
    <<"1", ".", "2", ".", "3">>,
    <<"-", ">">>,
    <<"-", "x">>,
    <<"1", " ", "/", "/", " ", "i", "g", "n", "o", "r", "e", "\n", "2">>,
    <<"x", "/", "/", "c", "\n", "1">>,
    <<"x", "=", "=", "1">> }

Sources == TextsUpTo(MaxLen) \cup ExampleTexts

\* the Parser fields while only the Lexer runs
ParserIdle ==
  /\ tokens = <<>>
  /\ current = 0
  /\ errors = <<>>
  /\ program = <<>>
  /\ prev = -1
  /\ call = "none"
  /\ result = <<>>
  /\ exc = "none"
  /\ pc = "idle"

\* Lexer.__init__
LexInit ==
  /\ source \in Sources
  /\ stream = source \o <<"\n">>
  /\ lex_current = 0
  /\ lex_tokens = <<>>
  /\ tokpos = <<>>
  /\ reads = {}
  /\ lex_prev = -1
  /\ iters = 0
  /\ lpc = "lex"
  /\ ParserIdle

\* the outcome st of an iteration of the loop of lex(): a read of an index
\* outside the stream raises IndexError and ends lex()
LexApply(st, inside) ==
  /\ reads' = st.reads
  /\ lex_current' = IF inside THEN st.current ELSE lex_current
  /\ lex_tokens' = IF inside THEN st.tokens ELSE lex_tokens
  /\ tokpos' = IF inside THEN st.tokpos ELSE tokpos
  /\ lpc' = IF inside THEN "lex" ELSE "raised"

\* one iteration of "while self.current < len(self.stream) - 1"
LexStep ==
  /\ lpc = "lex"
  /\ lex_current < Len(stream) - 1
  /\ lex_prev' = lex_current
  /\ iters' = iters + 1
  /\ LexApply(LexIteration(stream, lex_current, lex_tokens, tokpos),
              LexIteration(stream, lex_current, lex_tokens, tokpos).reads
                \subseteq 0..(Len(stream) - 1))
  /\ UNCHANGED <<source, stream, parsevars>>

\* the loop condition fails: "return self.tokens"
LexReturn ==
  /\ lpc = "lex"
  /\ ~(lex_current < Len(stream) - 1)
  /\ lpc' = "done"
  /\ UNCHANGED <<source, stream, lex_current, lex_tokens, tokpos, reads, lex_prev, iters, parsevars>>

LexNext == LexStep \/ LexReturn

LexSpec == LexInit /\ [][LexNext]_vars

(***************************************************************************)
(* parser.py                                                               *)
(***************************************************************************)
\* Python's None
None == [none |-> TRUE]

\* how a call ends: the value it returns or the exception it raises, and
\* self.current when it ends
Return(v, cur) == [exc |-> "none", value |-> v, current |-> cur]

Raise(kind, cur) == [exc |-> kind, value |-> None, current |-> cur]

\* reading Lexemes.<n> raises AttributeError unless the class defines n
HasLexeme(n) == n \in DOMAIN Lexemes

\* the attributes a Parser instance has: the fields __init__ sets and the methods
ParserAttributes ==
  {"tokens", "current", "errors",
   "peek", "consume", "expect", "expect_identifier", "advance_if",
   "synchronize_to_statement", "parse", "parse_declaration", "parse_statement",
   "parse_function_declaration", "parse_variable_declaration", "parse_expression",
   "parse_if", "parse_loop", "parse_assignment_or_lower", "parse_logical_or_or_lower",
   "parse_logical_and_or_lower", "parse_equality_or_lower",
   "parse_comparison_or_lower", "parse_primary_or_lower", "parse_block"}

\* bool(x) of what a Parser method returns: a Token defines neither __bool__
\* nor __len__, so every Token is true; None is false
Truthy(v) == v # None

\* "x in [Lexemes.A, ...]" for x a Token or None: Token defines no __eq__, so
\* x equals no str and the test is False
TokenInLexemeList(tok, names) == FALSE

\* the AST nodes (ast/expression.py, ast/statement.py).  is_result is the
\* attribute parse_statement sets; FALSE also stands for "never set".
ExpressionNode == [type |-> "ExpressionNode", is_result |-> FALSE]

BlockNode(statements) ==
  [type |-> "BlockNode", statements |-> statements, is_result |-> FALSE]

IfNode(condition, then_branch) ==
  [type |-> "IfNode", condition |-> condition, then_branch |-> then_branch,
   is_result |-> FALSE]

ReturnNode(expression) ==
  [type |-> "ReturnNode", expression |-> expression, is_result |-> FALSE]

IteratorLoopNode(is_const, iterator, iterable, body) ==
  [type |-> "IteratorLoopNode", is_const |-> is_const, iterator |-> iterator,
   iterable |-> iterable, body |-> body, is_result |-> FALSE]

WhileLoopNode(condition, body) ==
  [type |-> "WhileLoopNode", condition |-> condition, body |-> body,
   is_result |-> FALSE]

InfiniteLoopNode(body) ==
  [type |-> "InfiniteLoopNode", body |-> body, is_result |-> FALSE]

IntLiteral(value) == [type |-> "IntLiteral", value |-> value, is_result |-> FALSE]

FloatLiteral(value) == [type |-> "FloatLiteral", value |-> value, is_result |-> FALSE]

VariableAccessNode(name) ==
  [type |-> "VariableAccessNode", name |-> name, is_result |-> FALSE]

\* Parser.peek
peek(toks, cur) == IF cur + 1 <= Len(toks) THEN toks[cur + 1] ELSE None

\* Parser.consume
consume(toks, cur) ==
  IF cur <= Len(toks) - 1
  THEN Return(toks[cur + 1], cur + 1)
  ELSE Raise("ParserException", cur)

\* Parser.expect
expect(toks, cur, token_type) ==
  IF cur <= Len(toks) - 1
  THEN IF peek(toks, cur).token_type = token_type
       THEN consume(toks, cur)
       ELSE Raise("ParserException", cur)
  ELSE Raise("ParserException", cur)

\* Parser.expect_identifier
expect_identifier(toks, cur) ==
  IF cur <= Len(toks) - 1
  THEN IF peek(toks, cur).token_type = Lexemes["IDENTIFIER"]
       THEN Return(consume(toks, cur).value.value, consume(toks, cur).current)
       ELSE Raise("ParserException", cur)
  ELSE Raise("ParserException", cur)

\* Parser.advance_if: self.peek().token_type is read with no test for None
advance_if(toks, cur, token_type) ==
  IF peek(toks, cur) = None
  THEN Raise("AttributeError", cur)
  ELSE IF peek(toks, cur).token_type = token_type
       THEN consume(toks, cur)
       ELSE Raise("ParserException", cur)

\* the names in the list literal of synchronize_to_statement's second test
StatementStartNames ==
  {"CONST", "LET", "FUNC", "RETURN", "IF", "IMPORT", "LOOP", "BREAK", "CONTINUE"}

\* synchronize_to_statement leaving the terminator unconsumed
synchronize_without_consume(toks, cur) ==
  IF cur < Len(toks) - 1
  THEN LET tok == peek(toks, cur)
       IN  IF tok.token_type \in {Lexemes["SEMICOLON"], Lexemes["CLOSECURLYBRACKET"]}
           THEN Return(None, cur)
           ELSE Raise("AttributeError", cur)
  ELSE Return(None, cur)

\* Parser.synchronize_to_statement
RECURSIVE synchronize_to_statement(_, _)
synchronize_to_statement(toks, cur) ==
  IF cur < Len(toks) - 1
  THEN LET tok == peek(toks, cur)
       IN  IF tok.token_type \in {Lexemes["SEMICOLON"], Lexemes["CLOSECURLYBRACKET"]}
           THEN Return(None, consume(toks, cur).current)
           ELSE IF \E n \in StatementStartNames : ~HasLexeme(n)
           THEN Raise("AttributeError", cur)
           ELSE IF tok.token_type \in {Lexemes[n] : n \in StatementStartNames}
           THEN Return(None, cur)
           ELSE synchronize_to_statement(toks, cur + 1)
  ELSE Return(None, cur)

\* Parser.parse_primary_or_lower: no branch consumes the token; a token of
\* any other kind falls out of the match and the method returns None.
\* BoolLiteral.__init__ takes no value, so BoolLiteral(True) is a TypeError;
\* float() of a run with two dots is a ValueError.
parse_primary_or_lower(toks, cur) ==
  LET tok == peek(toks, cur)
      dots == Cardinality({k \in 1..Len(tok.value) : tok.value[k] = "."})
  IN  IF tok = None THEN Raise("AttributeError", cur)
      ELSE IF tok.token_type = Lexemes["INTLITERAL"]
      THEN Return(IntLiteral(tok.value), cur)
      ELSE IF tok.token_type = Lexemes["FLOATLITERAL"]
      THEN IF dots > 1 THEN Raise("ValueError", cur)
           ELSE Return(FloatLiteral(tok.value), cur)
      ELSE IF tok.token_type \in {Lexemes["TRUE"], Lexemes["FALSE"]}
      THEN Raise("TypeError", cur)
      ELSE IF tok.token_type = Lexemes["IDENTIFIER"]
      THEN Return(VariableAccessNode(tok.value), cur)
      ELSE Return(None, cur)

\* sequencing of two calls: an exception raised by the first leaves the
\* method at once; otherwise the rest of the method runs with its outcome r
Bind(r, rest(_)) == IF r.exc # "none" THEN r ELSE rest(r)

RECURSIVE parse_statement(_, _)
RECURSIVE parse_expression(_, _)
RECURSIVE parse_if(_, _)
RECURSIVE parse_loop(_, _)
RECURSIVE parse_block_loop(_, _, _, _)

\* "e.is_result = self.peek().token_type != Lexemes.SEMICOLON; return e" for
\* the outcome e of parse_expression
mark_result(toks, e) ==
  IF peek(toks, e.current) = None \/ e.value = None
  THEN Raise("AttributeError", e.current)
  ELSE Return([e.value EXCEPT !.is_result =
                 peek(toks, e.current).token_type # Lexemes["SEMICOLON"]],
              e.current)

\* the branch of Parser.parse_statement for "return"; next_tok is the
\* outcome of the consume() that took the return keyword itself
parse_return(toks, next_tok) ==
  IF next_tok.value.token_type = Lexemes["SEMICOLON"]
  THEN Return(ReturnNode(None), next_tok.current)
  ELSE Bind(parse_expression(toks, next_tok.current), LAMBDA e :
       Return(ReturnNode(e.value), e.current))

\* Parser.parse_statement
parse_statement(toks, cur) ==
  IF peek(toks, cur) = None THEN Raise("AttributeError", cur)
  ELSE IF ~HasLexeme("BREAK") THEN Raise("AttributeError", cur)
  ELSE IF peek(toks, cur).token_type = Lexemes["BREAK"] THEN consume(toks, cur)
  ELSE IF ~HasLexeme("CONTINUE") THEN Raise("AttributeError", cur)
  ELSE IF peek(toks, cur).token_type = Lexemes["CONTINUE"] THEN consume(toks, cur)
  ELSE IF peek(toks, cur).token_type = Lexemes["IMPORT"]
  THEN Bind(consume(toks, cur), LAMBDA c : parse_expression(toks, c.current))
  ELSE IF peek(toks, cur).token_type = Lexemes["RETURN"]
  THEN Bind(consume(toks, cur), LAMBDA next_tok : parse_return(toks, next_tok))
  ELSE Bind(parse_expression(toks, cur), LAMBDA e : mark_result(toks, e))

\* the while loop of Parser.parse_block; tok is the loop's variable
parse_block_loop(toks, cur, tok, statements) ==
  IF Truthy(tok) /\ tok.token_type # Lexemes["CLOSECURLYBRACKET"]
  THEN Bind(parse_statement(toks, cur), LAMBDA s :
       Bind(consume(toks, s.current), LAMBDA c :
       parse_block_loop(toks, c.current, c.value, Append(statements, s.value))))
  ELSE Return(BlockNode(statements), cur)

\* Parser.parse_block
parse_block(toks, cur) ==
  Bind(consume(toks, cur), LAMBDA c :
  parse_block_loop(toks, c.current, peek(toks, c.current), <<>>))

\* Parser.parse_expression
parse_expression(toks, cur) ==
  IF peek(toks, cur) = None THEN Raise("AttributeError", cur)
  ELSE IF peek(toks, cur).token_type = Lexemes["OPENCURLYBRACKET"]
  THEN parse_block(toks, cur)
  ELSE Bind(advance_if(toks, cur, Lexemes["IF"]), LAMBDA a :
       IF Truthy(a.value) THEN parse_if(toks, a.current)
       ELSE Bind(advance_if(toks, a.current, Lexemes["LOOP"]), LAMBDA b :
            IF Truthy(b.value) THEN parse_loop(toks, b.current)
            ELSE parse_primary_or_lower(toks, b.current)))

\* Parser.parse_if
parse_if(toks, cur) ==
  Bind(expect(toks, cur, Lexemes["OPENPARENTHESIS"]), LAMBDA open :
  Bind(consume(toks, open.current), LAMBDA skip1 :
  Bind(parse_expression(toks, skip1.current), LAMBDA condition :
  Bind(expect(toks, condition.current, Lexemes["CLOSEPARENTHESIS"]), LAMBDA close :
  Bind(consume(toks, close.current), LAMBDA skip2 :
  Bind(parse_expression(toks, skip2.current), LAMBDA then_branch :
  Return(IfNode(condition.value, then_branch.value), then_branch.current)))))))

\* the iterator branch of Parser.parse_loop.  "self.consume() == Lexemes.CONST"
\* compares a Token with a str and is False; the constructor is called with
\* (iterator, iterable, body, is_const) and its parameters are (is_const,
\* iterator, iterable, body).
parse_iterator_loop(toks, cur) ==
  Bind(consume(toks, cur), LAMBDA binder :
  Bind(expect_identifier(toks, binder.current), LAMBDA iterator :
  Bind(expect(toks, iterator.current, Lexemes["COLON"]), LAMBDA colon :
  Bind(parse_expression(toks, colon.current), LAMBDA iterable :
  Bind(expect(toks, iterable.current, Lexemes["CLOSEPARENTHESIS"]), LAMBDA close :
  Bind(parse_statement(toks, close.current), LAMBDA body :
  Return(IteratorLoopNode(iterator.value, iterable.value, body.value, FALSE),
         body.current)))))))

\* the while branch of Parser.parse_loop
parse_while_loop(toks, cur) ==
  Bind(parse_expression(toks, cur), LAMBDA condition :
  Bind(expect(toks, condition.current, Lexemes["CLOSEPARENTHESIS"]), LAMBDA close :
  Bind(parse_statement(toks, close.current), LAMBDA body :
  Return(WhileLoopNode(condition.value, body.value), body.current))))

\* Parser.parse_loop
parse_loop(toks, cur) ==
  Bind(expect(toks, cur, Lexemes["OPENPARENTHESIS"]), LAMBDA open :
  IF TokenInLexemeList(peek(toks, open.current), {"CONST", "LET"})
  THEN parse_iterator_loop(toks, open.current)
  ELSE Bind(advance_if(toks, open.current, Lexemes["CLOSEPARENTHESIS"]), LAMBDA a :
       IF Truthy(a.value)
       THEN Bind(parse_statement(toks, a.current), LAMBDA body :
            Return(InfiniteLoopNode(body.value), body.current))
       ELSE parse_while_loop(toks, a.current)))

VariableDeclaration(name, variable_type, expression, is_const) ==
  [type |-> "VariableDeclaration", name |-> name, variable_type |-> variable_type,
   expression |-> expression, is_const |-> is_const, is_result |-> FALSE]

FunctionDeclaration(name, params, return_type, expression) ==
  [type |-> "FunctionDeclaration", name |-> name, params |-> params,
   return_type |-> return_type, expression |-> expression, is_result |-> FALSE]

\* Parser.parse_variable_declaration: the let/const keyword under the cursor
\* is read for is_const and not consumed before expect(IDENTIFIER)
parse_variable_declaration(toks, cur) ==
  IF peek(toks, cur) = None THEN Raise("AttributeError", cur)
  ELSE Bind(expect(toks, cur, Lexemes["IDENTIFIER"]), LAMBDA n :
       Bind(expect(toks, n.current, Lexemes["COLON"]), LAMBDA colon :
       Bind(expect(toks, colon.current, Lexemes["IDENTIFIER"]), LAMBDA ty :
       Bind(expect(toks, ty.current, Lexemes["ASSIGNMENT"]), LAMBDA eq :
       Bind(consume(toks, eq.current), LAMBDA skip :
       Bind(parse_expression(toks, skip.current), LAMBDA e :
       Return(VariableDeclaration(n.value.value, ty.value.value, e.value,
                peek(toks, cur).token_type = Lexemes["CONST"]),
              e.current)))))))

\* the parameter loop of Parser.parse_function_declaration: an identifier
\* under the cursor is not consumed before expect(COLON)
RECURSIVE parse_parameters(_, _, _)
parse_parameters(toks, cur, params) ==
  IF cur < Len(toks) - 1
  THEN IF peek(toks, cur).token_type = Lexemes["IDENTIFIER"]
       THEN Bind(expect(toks, cur, Lexemes["COLON"]), LAMBDA colon :
            Bind(consume(toks, colon.current), LAMBDA ty :
            parse_parameters(toks, ty.current + 1,
              Append(params, VariableDeclaration(peek(toks, cur).value, ty.value.value,
                                                 ExpressionNode, TRUE)))))
       ELSE IF peek(toks, cur).token_type = Lexemes["CLOSEPARENTHESIS"]
       THEN Return(params, cur)
       ELSE parse_parameters(toks, cur + 1, params)
  ELSE Return(params, cur)

\* Parser.parse_function_declaration
parse_function_declaration(toks, cur) ==
  Bind(expect(toks, cur, Lexemes["IDENTIFIER"]), LAMBDA n :
  Bind(expect(toks, n.current, Lexemes["OPENPARENTHESIS"]), LAMBDA open :
  Bind(parse_parameters(toks, open.current, <<>>), LAMBDA params :
  Bind(expect(toks, params.current, Lexemes["ARROW"]), LAMBDA arrow :
  Bind(expect(toks, arrow.current, Lexemes["IDENTIFIER"]), LAMBDA return_type :
  Bind(consume(toks, return_type.current), LAMBDA skip :
  Bind(parse_expression(toks, skip.current), LAMBDA e :
  Return(FunctionDeclaration(n.value.value, params.value, return_type.value, e.value),
         e.current))))))))

\* Parser.parse_declaration (no method of the parser calls it)
parse_declaration(toks, cur) ==
  IF peek(toks, cur) = None THEN Raise("AttributeError", cur)
  ELSE IF peek(toks, cur).token_type \in {Lexemes["CONST"], Lexemes["LET"]}
  THEN parse_variable_declaration(toks, cur)
  ELSE IF peek(toks, cur).token_type = Lexemes["FUNC"]
  THEN parse_function_declaration(toks, cur)
  ELSE parse_statement(toks, cur)

(***************************************************************************)
(* The parser's inputs                                                     *)
(***************************************************************************)
\* a token of a kind without payload
Kw(n) == Token(Lexemes[n], <<>>)

IdentTok(c) == Token(Lexemes["IDENTIFIER"], <<c>>)

IntTok(c) == Token(Lexemes["INTLITERAL"], <<c>>)

\* the tokens the free-form token lists are made of
TokenAlphabet ==
  {Kw(n) : n \in {"LET", "CONST", "COLON", "ASSIGNMENT", "SEMICOLON",
                  "OPENCURLYBRACKET", "CLOSECURLYBRACKET",
                  "OPENPARENTHESIS", "CLOSEPARENTHESIS",
                  "LOOP", "IF", "RETURN", "IMPORT"}}
  \cup {IdentTok("x"), IntTok("1")}

RECURSIVE TokenListsUpTo(_)
TokenListsUpTo(n) ==
  IF n = 0 THEN {<<>>}
  ELSE LET shorter == TokenListsUpTo(n - 1)
       IN  shorter \cup {Append(t, k) : t \in {u \in shorter : Len(u) = n - 1},
                                        k \in TokenAlphabet}

\* "let x : int = 1 ;" or "const x : int = 1 ;", and the same with a wrong
\* token where "=" is required.  A declaration is described by
\* [const |-> BOOLEAN, good |-> BOOLEAN].
DeclTokens(d) ==
  << IF d.const THEN Kw("CONST") ELSE Kw("LET"),
     IdentTok("x"), Kw("COLON"), IdentTok("i"),
     IF d.good THEN Kw("ASSIGNMENT") ELSE Kw("COLON"),
     IntTok("1"), Kw("SEMICOLON") >>

DeclKinds == [const : BOOLEAN, good : BOOLEAN]

RECURSIVE DeclListsUpTo(_)
DeclListsUpTo(n) ==
  IF n = 0 THEN {<<>>}
  ELSE LET shorter == DeclListsUpTo(n - 1)
       IN  shorter \cup {Append(t, d) : t \in {u \in shorter : Len(u) = n - 1},
                                        d \in DeclKinds}

RECURSIVE Flatten(_)
Flatten(lists) ==
  IF lists = <<>> THEN <<>> ELSE Head(lists) \o Flatten(Tail(lists))

DeclListTokens(ds) == Flatten([k \in 1..Len(ds) |-> DeclTokens(ds[k])])

\* "{ 1 ; 1 ; ... }": n literal statements, the last one with or without ";"
BlockTokens(n, last_semicolon) ==
  <<Kw("OPENCURLYBRACKET")>>
  \o Flatten([k \in 1..n |->
       IF k < n \/ last_semicolon THEN <<IntTok("1"), Kw("SEMICOLON")>> ELSE <<IntTok("1")>>])
  \o <<Kw("CLOSECURLYBRACKET")>>

BlockInputs == {BlockTokens(n, b) : n \in 1..2, b \in BOOLEAN}

\* "loop ( ) { }", "loop ( x ) { }", "loop ( let i : x ) { }", "loop ( const i : x ) { }"
LoopBody == <<Kw("OPENCURLYBRACKET"), Kw("CLOSECURLYBRACKET")>>

InfiniteLoopTokens ==
  <<Kw("LOOP"), Kw("OPENPARENTHESIS"), Kw("CLOSEPARENTHESIS")>> \o LoopBody

WhileLoopTokens ==
  <<Kw("LOOP"), Kw("OPENPARENTHESIS"), IdentTok("x"), Kw("CLOSEPARENTHESIS")>> \o LoopBody

IteratorLoopTokens(binder) ==
  <<Kw("LOOP"), Kw("OPENPARENTHESIS"), Kw(binder), IdentTok("i"), Kw("COLON"),
    IdentTok("x"), Kw("CLOSEPARENTHESIS")>> \o LoopBody

LoopInputs ==
  {InfiniteLoopTokens, WhileLoopTokens, IteratorLoopTokens("LET"), IteratorLoopTokens("CONST")}

ParserInputs ==
  TokenListsUpTo(MaxTokens)
  \cup {DeclListTokens(ds) : ds \in DeclListsUpTo(MaxDecls)}
  \cup BlockInputs
  \cup LoopInputs
  \cup {t \o <<Kw("SEMICOLON")>> : t \in BlockInputs \cup LoopInputs}

(***************************************************************************)
(* The parser as a state machine                                           *)
(***************************************************************************)
\* the Lexer fields while only the Parser runs
LexerIdle ==
  /\ source = <<>>
  /\ stream = <<>>
  /\ lex_current = 0
  /\ lex_tokens = <<>>
  /\ tokpos = <<>>
  /\ reads = {}
  /\ lex_prev = -1
  /\ iters = 0
  /\ lpc = "idle"

\* Parser.__init__
ParseInit ==
  /\ tokens \in ParserInputs
  /\ current = 0
  /\ errors = <<>>
  /\ program = <<>>
  /\ prev = -1
  /\ call = "none"
  /\ result = <<>>
  /\ exc = "none"
  /\ pc = "new"
  /\ LexerIdle

\* "program.statements.append(s); self.expect(Lexemes.SEMICOLON)" for the
\* outcome t of the expect
AppendAndExpect(s, t) ==
  /\ program' = Append(program, s.value)
  /\ errors' = errors
  /\ current' = t.current
  /\ exc' = t.exc
  /\ pc' = IF t.exc = "none" THEN "parse" ELSE "raised"

\* "self.errors.append(self.error_message); self.synchronize_to_statement();
\* continue" for the outcome y of the synchronization
RecordAndSynchronize(y) ==
  /\ program' = program
  /\ errors' = Append(errors, "error_message")
  /\ current' = y.current
  /\ exc' = y.exc
  /\ pc' = IF y.exc = "none" THEN "parse" ELSE "raised"

\* an exception leaves parse() with self.current at cur
Propagate(kind, cur) ==
  /\ program' = program
  /\ errors' = errors
  /\ current' = cur
  /\ exc' = kind
  /\ pc' = "raised"

\* the body of the loop of Parser.parse for the outcome s of parse_statement:
\* only ParserException is caught, and the except block reads
\* self.error_message
ParseBody(s) ==
  IF s.exc = "none"
  THEN AppendAndExpect(s, expect(tokens, s.current, Lexemes["SEMICOLON"]))
  ELSE IF s.exc = "ParserException"
  THEN IF "error_message" \in ParserAttributes
       THEN RecordAndSynchronize(synchronize_to_statement(tokens, s.current))
       ELSE Propagate("AttributeError", s.current)
  ELSE Propagate(s.exc, s.current)

\* one iteration of the loop of Parser.parse
ParseIteration ==
  /\ pc \in {"new", "parse"}
  /\ current < Len(tokens) - 1
  /\ call' = "parse"
  /\ prev' = current
  /\ ParseBody(parse_statement(tokens, current))
  /\ UNCHANGED <<tokens, result, lexvars>>

\* the loop condition of Parser.parse fails: "return program"
ParseReturn ==
  /\ pc \in {"new", "parse"}
  /\ ~(current < Len(tokens) - 1)
  /\ call' = "parse"
  /\ pc' = "returned"
  /\ UNCHANGED <<tokens, current, errors, program, prev, result, exc, lexvars>>

\* a grammar rule called on the new Parser ends with the outcome r
RuleEnds(r) ==
  /\ result' = IF r.exc = "none" THEN <<r.value>> ELSE <<>>
  /\ current' = r.current
  /\ exc' = r.exc
  /\ pc' = IF r.exc = "none" THEN "returned" ELSE "raised"

\* a call of Parser.parse_expression on the new Parser
CallParseExpression ==
  /\ pc = "new"
  /\ call' = "parse_expression"
  /\ RuleEnds(parse_expression(tokens, current))
  /\ UNCHANGED <<tokens, errors, program, prev, lexvars>>

\* a call of Parser.parse_declaration on the new Parser
CallParseDeclaration ==
  /\ pc = "new"
  /\ call' = "parse_declaration"
  /\ RuleEnds(parse_declaration(tokens, current))
  /\ UNCHANGED <<tokens, errors, program, prev, lexvars>>

\* a call of Parser.synchronize_to_statement with the cursor at start, the
\* place a failed rule left it; prev keeps the starting cursor
CallSynchronizeToStatement ==
  /\ pc = "new"
  /\ \E start \in 0..Len(tokens) :
       /\ prev' = start
       /\ RuleEnds(synchronize_to_statement(tokens, start))
  /\ call' = "synchronize_to_statement"
  /\ UNCHANGED <<tokens, errors, program, lexvars>>

ParseNext ==
  \/ ParseIteration
  \/ ParseReturn
  \/ CallParseExpression
  \/ CallParseDeclaration
  \/ CallSynchronizeToStatement

ParseSpec == ParseInit /\ [][ParseNext]_vars

(***************************************************************************)
(* Properties of the parser, checked under ParseSpec                       *)
(***************************************************************************)
\* parse() has ended, by return or by an exception
ParseEnded == call = "parse" /\ pc \in {"returned", "raised"}

\* C1: parse() has no fatal error path: on no token list does an exception
\* leave parse(); a failed statement is recorded in errors and parsing
\* goes on after the synchronization.
C1_NoFatalErrorPath == ~(call = "parse" /\ pc = "raised")

\* C2: every iteration of the top-level loop of parse() strictly advances
\* the cursor: after an iteration self.current is greater than it was when
\* the iteration began.
C2_IterationAdvances == (call = "parse" /\ prev >= 0) => current > prev

\* the declarations of a declaration list that are well formed, in order
RECURSIVE WellFormed(_)
WellFormed(ds) ==
  IF ds = <<>> THEN <<>>
  ELSE IF Head(ds).good THEN <<Head(ds)>> \o WellFormed(Tail(ds))
  ELSE WellFormed(Tail(ds))

\* program holds exactly the declarations ds, in order
ProgramIs(ds) ==
  /\ Len(program) = Len(ds)
  /\ \A k \in 1..Len(ds) :
       /\ program[k].type = "VariableDeclaration"
       /\ program[k].name = <<"x">>
       /\ program[k].variable_type = <<"i">>
       /\ program[k].is_const = ds[k].const

\* C3: for a list of semicolon-terminated declarations of which exactly one
\* is malformed (a wrong token where "=" is required), parse() returns a
\* program holding every well-formed declaration, in source order, and
\* records exactly one diagnostic.
C3_ErrorRecovery ==
  \A ds \in DeclListsUpTo(MaxDecls) :
    ( /\ Cardinality({k \in 1..Len(ds) : ~ds[k].good}) = 1
      /\ tokens = DeclListTokens(ds)
      /\ ParseEnded )
    => /\ pc = "returned"
       /\ Len(errors) = 1
       /\ ProgramIs(WellFormed(ds))

\* C4: no input is lost without a diagnostic: when parse() returns with an
\* empty errors list, every token of the input was consumed, as part of a
\* statement appended to the program or as its ";" terminator.
C4_NoSilentLoss ==
  (call = "parse" /\ pc = "returned" /\ errors = <<>>)
  => /\ current = Len(tokens)
     /\ (tokens # <<>> => program # <<>>)

\* a directly called parse_expression has ended
ExpressionEnded == call = "parse_expression" /\ pc \in {"returned", "raised"}

C9_LoopFormDispatch ==
  (tokens \in LoopInputs /\ ExpressionEnded)
  => /\ pc = "returned"
     /\ tokens = InfiniteLoopTokens => result[1].type = "InfiniteLoopNode"
     /\ tokens = WhileLoopTokens =>
          /\ result[1].type = "WhileLoopNode"
          /\ result[1].condition.type = "VariableAccessNode"
     /\ \A binder \in {"LET", "CONST"} :
          tokens = IteratorLoopTokens(binder) =>
            /\ result[1].type = "IteratorLoopNode"
            /\ result[1].iterator = <<"i">>
            /\ result[1].is_const = (binder = "CONST")

\* synchronize_to_statement has returned
SynchronizeReturned == call = "synchronize_to_statement" /\ pc = "returned"

\* the token at 0-based index k is ";" or "}"
IsTerminator(k) ==
  tokens[k + 1].token_type \in {Lexemes["SEMICOLON"], Lexemes["CLOSECURLYBRACKET"]}

\* the token at 0-based index k is of a kind that starts a statement
IsStatementStart(k) ==
  tokens[k + 1].token_type \in
    {Lexemes[n] : n \in {m \in StatementStartNames : HasLexeme(m)}}

\* C11: whenever synchronize_to_statement returns, (a) the last token it
\* consumed is ";" or "}" and it is the first such token at or after the
\* starting cursor, or (b) the cursor is on an unconsumed statement-start
\* token, or (c) no token remains after the cursor; every token it skipped
\* is neither a terminator nor a statement-start token, and the cursor has
\* not moved backwards.
C11_SynchronizePostcondition ==
  SynchronizeReturned =>
    /\ current >= prev
    /\ \/ /\ current > prev
          /\ IsTerminator(current - 1)
          /\ \A k \in prev..(current - 2) : ~IsTerminator(k)
       \/ /\ current < Len(tokens)
          /\ IsStatementStart(current)
       \/ current >= Len(tokens) - 1
    /\ \A k \in prev..(current - 1) :
          /\ ~IsStatementStart(k)
          /\ IsTerminator(k) => k = current - 1

\* synchronize_to_statement, called in the middle of the token list with
\* tokens left after the cursor, has consumed a terminator and returned
C11_Witness ==
  /\ SynchronizeReturned
  /\ prev >= 1
  /\ prev < Len(tokens) - 1
  /\ current = prev + 1
  /\ IsTerminator(prev)

(***************************************************************************)
(* Properties of the lexer, checked under LexSpec                          *)
(***************************************************************************)
\* C5: lex() completes normally on every source text: no read leaves the
\* sentinel-padded stream (so no IndexError), every iteration of the outer
\* loop moves the cursor forward by at least one, the loop makes at most
\* len(source) iterations, and it ends with the cursor at or past the
\* sentinel, never beyond the end of the stream.
C5_LexCompletes ==
  /\ lpc # "raised"
  /\ reads \subseteq 0..(Len(stream) - 1)
  /\ iters > 0 => lex_current >= lex_prev + 1
  /\ iters <= Len(source)
  /\ lex_current <= Len(stream)
  /\ Len(lex_tokens) <= Len(stream)
  /\ lpc = "done" => lex_current >= Len(stream) - 1

\* C5 happens: lex() has returned after several iterations, and the last
\* one, on a "/" that ends the source, read the sentinel as its lookahead
C5_Witness ==
  /\ lpc = "done"
  /\ iters >= 2
  /\ source # <<>>
  /\ source[Len(source)] = "/"
  /\ (Len(stream) - 1) \in reads
  /\ lex_current = Len(stream) - 1
  /\ lex_tokens # <<>>

\* the kinds of the two-character symbols
CompoundKinds == {symbols[sp] : sp \in {x \in DOMAIN symbols : Len(x) = 2}}

\* C6: a two-character symbol yields one token of the compound kind, and
\* its second character is not tokenized again: no token starts at the
\* character after the one a compound token starts at.
C6_CompoundGreedy ==
  \A k \in 1..Len(lex_tokens) :
    lex_tokens[k].token_type \in CompoundKinds
    => \A j \in 1..Len(lex_tokens) : tokpos[j] # tokpos[k] + 1

\* index p of the text lies in a line comment: at or after a "//" with no
\* newline in between (for a text without quotes)
InComment(text, p) ==
  \E j \in 0..p :
    /\ j + 1 <= Len(text) - 1
    /\ At(text, j) = "/"
    /\ At(text, j + 1) = "/"
    /\ \A q \in j..p : At(text, q) # "\n"

NoQuotes(text) == \A k \in 1..Len(text) : text[k] \notin {"'", "\""}

\* C7: a "//" outside a quoted literal produces no token, and neither does
\* any character between it and the next newline, wherever the "//" occurs;
\* stated for the texts without quotes, where every "//" is outside a
\* literal: no token starts inside a comment.
C7_CommentStripping ==
  NoQuotes(source) =>
    \A k \in 1..Len(lex_tokens) : ~InComment(source, tokpos[k])

\* the canonical spelling of a token: the payload of an identifier or a
\* literal, the table's spelling of a keyword or a symbol
Spelling(tok) ==
  IF tok.token_type \in {Lexemes["IDENTIFIER"], Lexemes["INTLITERAL"],
                         Lexemes["FLOATLITERAL"], Lexemes["CHARLITERAL"],
                         Lexemes["STRINGLITERAL"]}
  THEN tok.value
  ELSE IF \E sp \in DOMAIN keywords : keywords[sp] = tok.token_type
  THEN CHOOSE sp \in DOMAIN keywords : keywords[sp] = tok.token_type
  ELSE CHOOSE sp \in DOMAIN symbols : symbols[sp] = tok.token_type

RECURSIVE Spell(_)
Spell(toks) == IF toks = <<>> THEN <<>> ELSE Spelling(Head(toks)) \o Spell(Tail(toks))

\* the text is made only of characters of identifiers, keywords, numbers
\* and one-character symbols
Recognized(text) ==
  \A k \in 1..Len(text) : isalnum(text[k]) \/ <<text[k]>> \in DOMAIN symbols

\* C10: for a text of recognized symbols, keywords, identifiers and
\* literals, lexing it, spelling every token back to text and lexing that
\* text again yields the same token stream, kinds and payloads.
C10_RoundTrip ==
  (lpc = "done" /\ Recognized(source)) => Lex(Spell(lex_tokens)) = lex_tokens

\* the characters of the text between the quote at index p and the next
\* occurrence of the same quote, or up to the end of the text when the quote
\* does not occur again
QuotedPayload(text, p) ==
  LET closing == {j \in (p + 1)..(Len(text) - 1) : At(text, j) = At(text, p)}
      last == IF closing = {} THEN Len(text) - 1
              ELSE (CHOOSE j \in closing : \A q \in closing : j <= q) - 1
  IN  [k \in 1..(last - p) |-> At(text, p + k)]

\* C12: the payload of every char or string literal token is exactly the
\* source characters between its opening quote and the matching closing
\* quote, or up to the end of the source text for an unterminated literal;
\* the line terminator the lexer appends to the source is in no payload.
C12_QuotedPayload ==
  \A k \in 1..Len(lex_tokens) :
    lex_tokens[k].token_type \in {Lexemes["CHARLITERAL"], Lexemes["STRINGLITERAL"]}
      => lex_tokens[k].value = QuotedPayload(source, tokpos[k])

====
